---- MODULE Spec2Model ----
(***************************************************************************)
(* A model of the Netpbm image library: the PBM (two-value) and PPM        *)
(* (colour) images of PBM.go and PPM.go, their decoders (ReadPBM,          *)
(* ReadPPM), encoders (Save), transforms and rasterisation primitives.     *)
(*                                                                         *)
(* Files and Go strings are sequences of bytes (0..255).  A Go panic is    *)
(* the outcome "panic": the program stops there.                           *)
(***************************************************************************)
EXTENDS Integers, Sequences, FiniteSets, TLC

VARIABLES
    pbm,      \* the *PBM the caller holds, or Nil
    ppm,      \* the *PPM the caller holds, or Nil
    file,     \* the bytes of the file on disk, or NoFile
    outcome,  \* how the last call ended: "none", "ok", "error" or "panic"
    call,     \* the last call: its name, arguments, the image before it, its trace
    run,      \* the run of identical calls in progress: op, length, image before
    budget    \* the calls the caller still makes (NoLimit: any number)

vars == <<pbm, ppm, file, outcome, call, run, budget>>

\* No image: a nil pointer.
Nil == [nil |-> TRUE]

\* No file on disk (no byte is negative).
NoFile == <<0 - 1>>

(***************************************************************************)
(* Bounds of the model.                                                    *)
(***************************************************************************)
MaxPixels == 6        \* images of the transform runs: width*height <= MaxPixels
MaxCodecPixels == 4   \* images of the codec run: width*height <= MaxCodecPixels
MaxP4Pixels == 10     \* images of the P4 encoding run: width*height <= MaxP4Pixels
MaxCanvas == 4        \* side of the canvas of the drawing runs
MaxObjPixels == 2     \* images of the object run: width*height <= MaxObjPixels
MaxOps == 2           \* calls per behaviour of the object run
MaxFileLines == 3     \* lines of the files of the decoding run
MaxRun == 4           \* length of a run of identical calls that is tracked

(***************************************************************************)
(* Bytes of the formats.                                                   *)
(***************************************************************************)
NL == 10       \* '\n'
CR == 13       \* '\r'
TAB == 9       \* '\t'
SP == 32       \* ' '
HASH == 35     \* '#'
MINUS == 45    \* '-'
PLUS == 43     \* '+'
CH0 == 48      \* '0'
CH1 == 49      \* '1'
CHP == 80      \* 'P'
Uint8 == 256   \* uint8 arithmetic is modulo 2^8

P1 == <<CHP, CH0 + 1>>
P3 == <<CHP, CH0 + 3>>
P4 == <<CHP, CH0 + 4>>
P6 == <<CHP, CH0 + 6>>
P2 == <<CHP, CH0 + 2>>

Min(a, b) == IF a < b THEN a ELSE b
Max(a, b) == IF a > b THEN a ELSE b

(***************************************************************************)
(* Go's strings and strconv/fmt as the decoders and encoders use them.     *)
(***************************************************************************)
\* unicode.IsSpace on the bytes that occur: '\t', '\n', '\v', '\f', '\r', ' '.
IsSpace(c) == c \in {TAB, NL, 11, 12, CR, SP}

IsDigit(c) == c >= CH0 /\ c <= CH0 + 9

\* strings.TrimSpace
RECURSIVE TrimLeft(_)
TrimLeft(s) ==
    IF s # <<>> /\ IsSpace(Head(s)) THEN TrimLeft(Tail(s)) ELSE s

RECURSIVE TrimRight(_)
TrimRight(s) ==
    IF s # <<>> /\ IsSpace(s[Len(s)]) THEN TrimRight(SubSeq(s, 1, Len(s) - 1)) ELSE s

TrimSpace(s) == TrimRight(TrimLeft(s))

\* The length of the longest prefix of s made of bytes that satisfy (or not) IsSpace.
RECURSIVE SpanLen(_, _)
SpanLen(s, space) ==
    IF s # <<>> /\ (IsSpace(Head(s)) = space) THEN 1 + SpanLen(Tail(s), space) ELSE 0

\* strings.Fields: the maximal runs of non-space bytes.
RECURSIVE Fields(_)
Fields(s) ==
    LET t == TrimLeft(s)
        n == SpanLen(t, FALSE)
    IN  IF t = <<>> THEN <<>>
        ELSE <<SubSeq(t, 1, n)>> \o Fields(SubSeq(t, n + 1, Len(t)))

\* strings.HasPrefix(text, "#")
HasHashPrefix(text) == text # <<>> /\ Head(text) = HASH

\* The decimal digits of n >= 0.
RECURSIVE Digits(_)
Digits(n) ==
    IF n < 10 THEN <<CH0 + n>> ELSE Digits(n \div 10) \o <<CH0 + (n % 10)>>

\* fmt's %d of an int or a uint8.
FormatInt(n) == IF n < 0 THEN <<MINUS>> \o Digits(-n) ELSE Digits(n)

\* The value of a string of decimal digits.
RECURSIVE DigitsValue(_)
DigitsValue(s) ==
    IF s = <<>> THEN 0
    ELSE 10 * DigitsValue(SubSeq(s, 1, Len(s) - 1)) + (s[Len(s)] - CH0)

RECURSIVE DigitSpan(_)
DigitSpan(s) ==
    IF s # <<>> /\ IsDigit(Head(s)) THEN 1 + DigitSpan(Tail(s)) ELSE 0

\* strconv.ParseUint(s, 10, 8) with its error dropped, as ReadPPM calls it: 0 on
\* a syntax error, 255 when the value is out of range.
ParseUint8(s) ==
    IF s = <<>> \/ DigitSpan(s) # Len(s) THEN 0
    ELSE Min(DigitsValue(s), Uint8 - 1)

\* One %d verb of fmt.Sscanf on input s: leading blanks are skipped, a sign is
\* accepted when signed, then at least one digit is needed.  ok says whether a
\* number was scanned, val is the number, rest the input left.
ScanInt(s, signed) ==
    LET t == SubSeq(s, SpanLen(s, TRUE) + 1, Len(s))
        neg == signed /\ t # <<>> /\ Head(t) = MINUS
        sgn == signed /\ t # <<>> /\ Head(t) \in {MINUS, PLUS}
        u == IF sgn THEN Tail(t) ELSE t
        n == DigitSpan(u)
        v == DigitsValue(SubSeq(u, 1, n))
    IN  [ok |-> n > 0,
         val |-> IF neg THEN -v ELSE v,
         rest |-> SubSeq(u, n + 1, Len(u))]

\* fmt.Sscanf(s, "%d %d", &width, &height): an operand is stored as soon as it is
\* scanned; at the first failure the scan stops and the later operands keep their
\* values.  n is the number of operands stored.
Sscanf2(s, width, height) ==
    LET a == ScanInt(s, TRUE)
        b == ScanInt(a.rest, TRUE)
    IN  IF ~a.ok THEN [n |-> 0, width |-> width, height |-> height]
        ELSE IF ~b.ok THEN [n |-> 1, width |-> a.val, height |-> height]
        ELSE [n |-> 2, width |-> a.val, height |-> b.val]

\* fmt.Sscanf(s, "%d", &max) with max a uint8: a value that does not fit in 8 bits
\* is an error and leaves max as it was.
SscanfUint8(s, max) ==
    LET a == ScanInt(s, FALSE)
    IN  IF a.ok /\ a.val < Uint8 THEN a.val ELSE max

\* bufio.Reader.ReadString('\n') on the unread bytes s: the bytes up to and with
\* the first '\n'; an error (io.EOF) when there is none.
RECURSIVE IndexNL(_)
IndexNL(s) ==
    IF s = <<>> THEN 0
    ELSE IF Head(s) = NL THEN 1
    ELSE LET i == IndexNL(Tail(s)) IN IF i = 0 THEN 0 ELSE i + 1

ReadString(s) ==
    LET i == IndexNL(s)
    IN  IF i = 0 THEN [ok |-> FALSE, line |-> s, rest |-> <<>>]
        ELSE [ok |-> TRUE, line |-> SubSeq(s, 1, i), rest |-> SubSeq(s, i + 1, Len(s))]

\* bufio.ScanLines' dropCR
DropCR(s) == IF s # <<>> /\ s[Len(s)] = CR THEN SubSeq(s, 1, Len(s) - 1) ELSE s

\* The tokens of bufio.Scanner with the default split function (ScanLines): the
\* lines without their end, the last one also when it has no '\n' and is not empty.
RECURSIVE ScanLines(_)
ScanLines(s) ==
    LET i == IndexNL(s)
    IN  IF s = <<>> THEN <<>>
        ELSE IF i = 0 THEN <<DropCR(s)>>
        ELSE <<DropCR(SubSeq(s, 1, i - 1))>> \o ScanLines(SubSeq(s, i + 1, Len(s)))

\* The concatenation of a sequence of byte strings.
RECURSIVE Concat(_)
Concat(ss) == IF ss = <<>> THEN <<>> ELSE Head(ss) \o Concat(Tail(ss))

(***************************************************************************)
(* PBM.go: the two-value image.                                            *)
(***************************************************************************)
\* type PBM struct
PBM(data, width, height, magicNumber) ==
    [data |-> data, width |-> width, height |-> height, magicNumber |-> magicNumber]

\* Bit k (0 = least significant) of byte b: (b >> k) & 1.
Bit(b, k) == (b \div (2 ^ k)) % 2

\* The P1 rows of ReadPBM: one line per row, its fields the pixels; a field past
\* the width is an error, a field other than "1" is false, a missing field leaves
\* the pixel false.
RECURSIVE ReadP1Rows(_, _, _)
ReadP1Rows(s, width, rows) ==
    IF rows = 0 THEN [st |-> "ok", data |-> <<>>]
    ELSE LET l == ReadString(s)
             fields == Fields(l.line)
             row == [x \in 1..Max(width, 0) |-> x <= Len(fields) /\ fields[x] = <<CH1>>]
             more == ReadP1Rows(l.rest, width, rows - 1)
         IN  IF ~l.ok THEN [st |-> "error", data |-> <<>>]
             ELSE IF Len(fields) > width THEN [st |-> "error", data |-> <<>>]
             ELSE IF more.st # "ok" THEN more
             ELSE [st |-> "ok", data |-> <<row>> \o more.data]

\* The P4 rows of ReadPBM: (width+7)/8 bytes per row, pixel x at bit 7 - x%8 of
\* byte x/8.  reader.Read gives what is left when less than a row is left, which
\* is an error, as is the end of the file.
RECURSIVE ReadP4Rows(_, _, _)
ReadP4Rows(s, width, rows) ==
    IF rows = 0 THEN [st |-> "ok", data |-> <<>>]
    ELSE LET expectedBytesPerRow == (width + 7) \div 8
             n == Min(expectedBytesPerRow, Len(s))
             row == [x \in 1..width |-> Bit(s[((x - 1) \div 8) + 1], 7 - ((x - 1) % 8)) # 0]
             more == ReadP4Rows(SubSeq(s, n + 1, Len(s)), width, rows - 1)
         IN  IF n < expectedBytesPerRow THEN [st |-> "error", data |-> <<>>]
             ELSE IF more.st # "ok" THEN more
             ELSE [st |-> "ok", data |-> <<row>> \o more.data]

\* ReadPBM on the bytes f of the file: [st, img], img the image when st = "ok" and
\* Nil otherwise.  make() panics on a negative length.
ReadPBM(f) ==
    LET m == ReadString(f)
        magicNumber == TrimSpace(m.line)
        d == ReadString(m.rest)
        dim == Sscanf2(TrimSpace(d.line), 0, 0)
        body == IF magicNumber = P1 THEN ReadP1Rows(d.rest, dim.width, dim.height)
                ELSE ReadP4Rows(d.rest, dim.width, dim.height)
    IN  IF ~m.ok THEN [st |-> "error", img |-> Nil]
        ELSE IF magicNumber # P1 /\ magicNumber # P4 THEN [st |-> "error", img |-> Nil]
        ELSE IF ~d.ok THEN [st |-> "error", img |-> Nil]
        ELSE IF dim.n < 2 THEN [st |-> "error", img |-> Nil]
        ELSE IF dim.height < 0 \/ (dim.height > 0 /\ dim.width < 0)
             THEN [st |-> "panic", img |-> Nil]
        ELSE IF body.st # "ok" THEN [st |-> body.st, img |-> Nil]
        ELSE [st |-> "ok", img |-> PBM(body.data, dim.width, dim.height, magicNumber)]

\* The header PBM.Save writes: "%s\n%d %d\n".
PBMHeader(p) ==
    p.magicNumber \o <<NL>> \o FormatInt(p.width) \o <<SP>> \o FormatInt(p.height) \o <<NL>>

\* A P1 row as Save writes it: "1 " or "0 " per pixel, then "\n".
SaveP1Row(row) ==
    Concat([x \in 1..Len(row) |-> IF row[x] THEN <<CH1, SP>> ELSE <<CH0, SP>>]) \o <<NL>>

\* Variant of PackByte that stores pixel x at bit x%8 (least significant bit first).
RECURSIVE PackByteLSBFirst(_, _, _)
PackByteLSBFirst(row, byteIndex, upto) ==
    IF upto = 0 THEN 0
    ELSE LET x == upto - 1
             bitValue == IF row[x + 1] THEN 1 ELSE 0
         IN  PackByteLSBFirst(row, byteIndex, upto - 1)
             + (IF x \div 8 = byteIndex THEN bitValue * (2 ^ (x % 8)) ELSE 0)

\* The value that the pixels x < upto of row leave in byte byteIndex:
\* bytes[x/8] |= bitValue << (7 - x%8).
RECURSIVE PackByte(_, _, _)
PackByte(row, byteIndex, upto) ==
    IF upto = 0 THEN 0
    ELSE LET x == upto - 1
             bitValue == IF row[x + 1] THEN 1 ELSE 0
         IN  PackByte(row, byteIndex, upto - 1)
             + (IF x \div 8 = byteIndex THEN bitValue * (2 ^ (7 - (x % 8))) ELSE 0)

\* A P4 row as Save writes it: (width+7)/8 bytes.
SaveP4Row(row, width) ==
    [i \in 1..((width + 7) \div 8) |-> PackByte(row, i - 1, width)]

\* PBM.Save: the bytes written to the file.
PBMSave(p) ==
    PBMHeader(p)
    \o (IF p.magicNumber = P1
           THEN Concat([y \in 1..Len(p.data) |-> SaveP1Row(p.data[y])])
        ELSE IF p.magicNumber = P4
           THEN Concat([y \in 1..Len(p.data) |-> SaveP4Row(p.data[y], p.width)])
        ELSE <<>>)

\* PBM.Set indexes the grid unchecked: an index out of range panics.
PBMSetInRange(p, x, y) ==
    y >= 0 /\ y < Len(p.data) /\ x >= 0 /\ x < Len(p.data[y + 1])

PBMSet(p, x, y, value) == [p EXCEPT !.data[y + 1][x + 1] = value]

\* PBM.Invert
PBMInvert(p) ==
    [p EXCEPT !.data = [i \in 1..p.height |-> [j \in 1..p.width |-> ~p.data[i][j]]]]

\* PBM.Flip: the pixels of each row in reverse order.
PBMFlip(p) ==
    [p EXCEPT !.data = [i \in 1..p.height |->
                           [j \in 1..p.width |-> p.data[i][p.width + 1 - j]]]]

\* PBM.Flop: the rows in reverse order.
PBMFlop(p) ==
    [p EXCEPT !.data = [i \in 1..p.height |-> p.data[p.height + 1 - i]]]

\* PBM.SetMagicNumber
PBMSetMagicNumber(p, magicNumber) == [p EXCEPT !.magicNumber = magicNumber]

(***************************************************************************)
(* PPM.go: the colour image.                                               *)
(***************************************************************************)
\* type Pixel struct
Pixel(r, g, b) == [R |-> r, G |-> g, B |-> b]

\* type PPM struct
PPM(data, width, height, magicNumber, max) ==
    [data |-> data, width |-> width, height |-> height,
     magicNumber |-> magicNumber, max |-> max]

\* type Point struct
Point(x, y) == [X |-> x, Y |-> y]

\* make([][]Pixel, height) with each row make([]Pixel, width): zero pixels.
MakeGrid(width, height) ==
    [y \in 1..height |-> [x \in 1..Max(width, 0) |-> Pixel(0, 0, 0)]]

\* A payload line of a P3 file: pixel i of the row is the fields 3i, 3i+1, 3i+2.
P3Row(val, width) ==
    [i \in 1..Max(width, 0) |->
        Pixel(ParseUint8(val[3 * i - 2]), ParseUint8(val[3 * i - 1]), ParseUint8(val[3 * i]))]

\* The P6 payload: the last width*height*3 bytes of the file, three per pixel.
P6Grid(fileContent, width, height) ==
    LET off == Len(fileContent) - (width * height * 3)
    IN  [y \in 1..height |-> [x \in 1..Max(width, 0) |->
            LET pixelIndex == off + 3 * ((y - 1) * width + (x - 1))
            IN  Pixel(fileContent[pixelIndex + 1], fileContent[pixelIndex + 2],
                      fileContent[pixelIndex + 3])]]

\* One turn of ReadPPM's loop over the lines: s is the decoder's state (the image
\* under construction, the row counter line, and st: "scan" while scanning, "done"
\* after the break, "panic" after a panic).
ReadPPMLine(s, text, fileContent) ==
    IF s.st # "scan" THEN s
    ELSE IF HasHashPrefix(text) THEN s
    ELSE IF s.magicNumber = <<>> THEN [s EXCEPT !.magicNumber = TrimSpace(text)]
    ELSE IF s.width = 0 THEN
        LET dim == Sscanf2(text, s.width, s.height)
        IN  IF dim.height < 0 \/ (dim.height > 0 /\ dim.width < 0)
            THEN [s EXCEPT !.st = "panic", !.width = dim.width, !.height = dim.height]
            ELSE [s EXCEPT !.width = dim.width, !.height = dim.height,
                           !.data = MakeGrid(dim.width, dim.height)]
    ELSE IF s.max = 0 THEN [s EXCEPT !.max = SscanfUint8(text, s.max)]
    ELSE IF s.magicNumber = P3 THEN
        LET val == Fields(text)
        IN  IF s.width > 0 /\ (Len(val) < 3 * s.width \/ s.line >= s.height)
            THEN [s EXCEPT !.st = "panic"]
            ELSE IF s.width > 0
            THEN [s EXCEPT !.data[s.line + 1] = P3Row(val, s.width), !.line = s.line + 1]
            ELSE [s EXCEPT !.line = s.line + 1]
    ELSE IF s.magicNumber = P6 THEN
        IF Len(fileContent) < s.width * s.height * 3
        THEN [s EXCEPT !.st = "panic"]
        ELSE [s EXCEPT !.st = "done", !.data = P6Grid(fileContent, s.width, s.height)]
    ELSE s

\* ReadPPM's loop over the lines.  The decoder's state after a line is a value
\* (s1 ranges over the one-element set of it), as ppm is in the loop.
RECURSIVE ReadPPMLines(_, _, _)
ReadPPMLines(s, lines, fileContent) ==
    IF lines = <<>> THEN s
    ELSE CHOOSE r \in {ReadPPMLines(s1, Tail(lines), fileContent) :
                        s1 \in {ReadPPMLine(s, Head(lines), fileContent)}} : TRUE

\* ReadPPM on the bytes f of the file: [st, img].  It returns no error of its own:
\* the image as far as it was filled in, unless a panic ended the call.
ReadPPM(f) ==
    LET s0 == [st |-> "scan", magicNumber |-> <<>>, width |-> 0, height |-> 0,
               max |-> 0, data |-> <<>>, line |-> 0]
    IN  CHOOSE r \in {IF s.st = "panic" THEN [st |-> "panic", img |-> Nil]
                       ELSE [st |-> "ok",
                             img |-> PPM(s.data, s.width, s.height, s.magicNumber, s.max)] :
                       s \in {ReadPPMLines(s0, ScanLines(f), f)}} : TRUE

\* PPM.Set: the bounds check.
PPMSetInRange(p, x, y) == x >= 0 /\ x < p.width /\ y >= 0 /\ y < p.height

\* PPM.Set: out of range it prints a message and changes nothing.
PPMSet(p, x, y, value) ==
    IF PPMSetInRange(p, x, y) THEN [p EXCEPT !.data[y + 1][x + 1] = value] ELSE p

\* The header PPM.Save writes: "%s\n", "%d %d\n", "%d\n".
PPMHeader(p) ==
    p.magicNumber \o <<NL>> \o FormatInt(p.width) \o <<SP>> \o FormatInt(p.height) \o <<NL>>
    \o FormatInt(p.max) \o <<NL>>

\* A P3 row as Save writes it: "%d %d %d " per pixel, then "\n".
SaveP3Row(row) ==
    Concat([x \in 1..Len(row) |->
               FormatInt(row[x].R) \o <<SP>> \o FormatInt(row[x].G) \o <<SP>>
               \o FormatInt(row[x].B) \o <<SP>>]) \o <<NL>>

\* A P6 row as Save writes it: the three bytes of each pixel.
SaveP6Row(row) == Concat([x \in 1..Len(row) |-> <<row[x].R, row[x].G, row[x].B>>])

\* PPM.Save: the bytes written to the file.
PPMSave(p) ==
    PPMHeader(p)
    \o (IF p.magicNumber = P3
           THEN Concat([y \in 1..p.height |-> SaveP3Row(SubSeq(p.data[y], 1, p.width))])
        ELSE IF p.magicNumber = P6
           THEN Concat([y \in 1..p.height |-> SaveP6Row(SubSeq(p.data[y], 1, p.width))])
        ELSE <<>>)

\* Variant of SubUint8 that stops at 0 instead of wrapping around.
SubSaturating(a, b) == IF a < b THEN 0 ELSE a - b

\* uint8(max) - v in uint8 arithmetic.
SubUint8(a, b) == (a - b + Uint8) % Uint8

\* PPM.Invert
PPMInvert(p) ==
    [p EXCEPT !.data = [y \in 1..p.height |-> [x \in 1..p.width |->
        Pixel(SubUint8(p.max, p.data[y][x].R), SubUint8(p.max, p.data[y][x].G),
              SubUint8(p.max, p.data[y][x].B))]]]

\* PPM.Flip: the pixels of each row in reverse order.
PPMFlip(p) ==
    [p EXCEPT !.data = [y \in 1..p.height |->
                           [x \in 1..p.width |-> p.data[y][p.width + 1 - x]]]]

\* PPM.Flop: the rows in reverse order.
PPMFlop(p) ==
    [p EXCEPT !.data = [y \in 1..p.height |-> p.data[p.height + 1 - y]]]

\* PPM.SetMagicNumber
PPMSetMagicNumber(p, magicNumber) == [p EXCEPT !.magicNumber = magicNumber]

\* uint8(int(v) * int(maxValue) / int(ppm.max))
Rescale(v, maxValue, oldMax) == ((v * maxValue) \div oldMax) % Uint8

\* PPM.SetMaxValue divides by the old max for every pixel: with pixels and a zero
\* max it panics (integer divide by zero).
SetMaxValuePanics(p) == p.max = 0 /\ p.width > 0 /\ p.height > 0

\* PPM.SetMaxValue
SetMaxValue(p, maxValue) ==
    LET m == IF maxValue = 0 THEN 1 ELSE maxValue
    IN  [p EXCEPT !.max = m,
                  !.data = [y \in 1..p.height |-> [x \in 1..p.width |->
                      Pixel(Rescale(p.data[y][x].R, m, p.max),
                            Rescale(p.data[y][x].G, m, p.max),
                            Rescale(p.data[y][x].B, m, p.max))]]]

\* Variant of Rotate90CW that turns the grid counter-clockwise.
Rotate90CCW(p) ==
    [p EXCEPT !.data = [x \in 1..p.width |-> [k \in 1..p.height |->
                           p.data[k][p.width + 1 - x]]],
              !.width = p.height,
              !.height = p.width]

\* PPM.Rotate90CW: rotatedData[x][height-y-1] = data[y][x], then width and height
\* are swapped.
Rotate90CW(p) ==
    [p EXCEPT !.data = [x \in 1..p.width |-> [k \in 1..p.height |->
                           p.data[p.height + 1 - k][x]]],
              !.width = p.height,
              !.height = p.width]

(***************************************************************************)
(* PPM.go: the rasteriser.                                                 *)
(***************************************************************************)
abs(x) == IF x < 0 THEN -x ELSE x

sign(x) == IF x > 0 THEN 1 ELSE IF x < 0 THEN -1 ELSE 0

\* Turns a loop of the rasteriser may take in the model before the call is
\* reported as not ending.
LoopFuel == 4 * (MaxCanvas + 2)

\* The points DrawLine's loop visits from (x, y) to p2 with the error term err:
\* pts in the order visited, ended whether the loop reached its break.
RECURSIVE LinePoints(_, _, _, _, _, _)
LinePoints(x, y, p1, p2, err, fuel) ==
    LET deltaX == abs(p2.X - p1.X)
        deltaY == abs(p2.Y - p1.Y)
        sx == sign(p2.X - p1.X)
        sy == sign(p2.Y - p1.Y)
        e2 == 2 * err
        stepX == e2 > -deltaY
        stepY == e2 < deltaX
        err1 == IF stepX THEN err - deltaY ELSE err
        err2 == IF stepY THEN err1 + deltaX ELSE err1
        more == LinePoints(IF stepX THEN x + sx ELSE x, IF stepY THEN y + sy ELSE y,
                           p1, p2, err2, fuel - 1)
    IN  IF x = p2.X /\ y = p2.Y THEN [pts |-> <<Point(x, y)>>, ended |-> TRUE]
        ELSE IF fuel = 0 THEN [pts |-> <<Point(x, y)>>, ended |-> FALSE]
        ELSE [pts |-> <<Point(x, y)>> \o more.pts, ended |-> more.ended]

\* Variant of LineWalk whose error term starts at 0.
LineWalkNoError(p1, p2) == LinePoints(p1.X, p1.Y, p1, p2, 0, LoopFuel)

\* The walk of DrawLine(p1, p2, color): err starts at deltaX - deltaY.
LineWalk(p1, p2) ==
    LinePoints(p1.X, p1.Y, p1, p2, abs(p2.X - p1.X) - abs(p2.Y - p1.Y), LoopFuel)

\* The grid with the points pts that lie inside it set to color.
Plot(p, pts, color) ==
    [p EXCEPT !.data = [y \in 1..p.height |-> [x \in 1..p.width |->
        IF \E i \in 1..Len(pts) : pts[i] = Point(x - 1, y - 1)
        THEN color ELSE p.data[y][x]]]]

\* PPM.DrawLine
DrawLine(p, p1, p2, color) == Plot(p, LineWalk(p1, p2).pts, color)

\* The image after the lines ls (pairs of points) are drawn in order.
RECURSIVE DrawLines(_, _, _)
DrawLines(p, ls, color) ==
    IF ls = <<>> THEN p
    ELSE DrawLines(DrawLine(p, Head(ls)[1], Head(ls)[2], color), Tail(ls), color)

\* PPM.DrawRectangle: the four lines it draws.
RectangleLines(p1, width, height) ==
    LET p2 == Point(p1.X + width, p1.Y)
        p3 == Point(p1.X, p1.Y + height)
        p4 == Point(p1.X + width, p1.Y + height)
    IN  <<<<p1, p2>>, <<p2, p4>>, <<p4, p3>>, <<p3, p1>>>>

DrawRectangle(p, p1, width, height, color) ==
    DrawLines(p, RectangleLines(p1, width, height), color)

\* PPM.DrawFilledRectangle: one horizontal line for each i in 0..height.
FilledRectangleLines(p1, width, height) ==
    [k \in 1..(height + 1) |->
        <<Point(p1.X, p1.Y + k - 1), Point(p1.X + width, p1.Y + k - 1)>>]

DrawFilledRectangle(p, p1, width, height, color) ==
    DrawLines(p, FilledRectangleLines(p1, width, height), color)

\* PPM.DrawTriangle: the three lines it draws.
TriangleLines(p1, p2, p3) == <<<<p1, p2>>, <<p2, p3>>, <<p3, p1>>>>

DrawTriangle(p, p1, p2, p3, color) == DrawLines(p, TriangleLines(p1, p2, p3), color)

\* Variant of StepToward that moves on Y only once X has arrived.
StepOneAxis(p1, p2) ==
    Point(IF p1.X < p2.X THEN p1.X + 1 ELSE IF p1.X > p2.X THEN p1.X - 1 ELSE p1.X,
          IF p1.X # p2.X THEN p1.Y
          ELSE IF p1.Y < p2.Y THEN p1.Y + 1 ELSE IF p1.Y > p2.Y THEN p1.Y - 1 ELSE p1.Y)

\* One turn of DrawFilledTriangle's loop moves p1 one unit toward p2 on each axis
\* on which they differ.
StepToward(p1, p2) ==
    Point(IF p1.X < p2.X THEN p1.X + 1 ELSE IF p1.X > p2.X THEN p1.X - 1 ELSE p1.X,
          IF p1.Y < p2.Y THEN p1.Y + 1 ELSE IF p1.Y > p2.Y THEN p1.Y - 1 ELSE p1.Y)

\* The lines DrawFilledTriangle draws: from p3 to p1 in every turn of the loop
\* (while p1 != p2), and from p3 to p1 once more after it.
RECURSIVE FilledTriangleLines(_, _, _, _)
FilledTriangleLines(p1, p2, p3, fuel) ==
    LET more == FilledTriangleLines(StepToward(p1, p2), p2, p3, fuel - 1)
    IN  IF p1 = p2 THEN [lines |-> <<<<p3, p1>>>>, ended |-> TRUE]
        ELSE IF fuel = 0 THEN [lines |-> <<<<p3, p1>>>>, ended |-> FALSE]
        ELSE [lines |-> <<<<p3, p1>>>> \o more.lines, ended |-> more.ended]

\* PPM.DrawFilledTriangle
DrawFilledTriangle(p, p1, p2, p3, color) ==
    DrawLines(p, FilledTriangleLines(p1, p2, p3, LoopFuel).lines, color)

\* PPM.DrawCircle marks the pixel at distance d of the center when
\* |d - radius*0.85| < 0.5, that is 17*radius - 10 < 20*d < 17*radius + 10, which
\* is compared here on the squares: d*d is the integer dx*dx + dy*dy.
OnCircle(x, y, center, radius) ==
    LET d2 == (x - center.X) * (x - center.X) + (y - center.Y) * (y - center.Y)
        lo == 17 * radius - 10
        hi == 17 * radius + 10
    IN  /\ hi > 0 /\ 400 * d2 < hi * hi
        /\ (lo < 0 \/ 400 * d2 > lo * lo)

DrawCircle(p, center, radius, color) ==
    [p EXCEPT !.data = [y \in 1..p.height |-> [x \in 1..p.width |->
        IF OnCircle(x - 1, y - 1, center, radius) THEN color ELSE p.data[y][x]]]]

\* PPM.DrawFilledCircle: DrawCircle for radius, radius-1, ..., 0.
RECURSIVE DrawFilledCircle(_, _, _, _)
DrawFilledCircle(p, center, radius, color) ==
    IF radius < 0 THEN p
    ELSE DrawFilledCircle(DrawCircle(p, center, radius, color), center, radius - 1, color)

(***************************************************************************)
(* The caller: it holds one image, read from a file, and calls the methods *)
(* of the library on it.  call and run are history: they record what was   *)
(* called and are Off in the runs that do not look at them.                *)
(***************************************************************************)
NoLimit == 0 - 1

Off == [op |-> "off"]

NoCall == [op |-> "none", args |-> <<>>, pre |-> Nil, trace |-> <<>>, ended |-> TRUE]

NoRun == [op |-> "none", n |-> 0, start |-> Nil]

\* The caller is running (a panic ended the program) and has calls left.
CanCall == outcome # "panic" /\ budget # 0

\* The history after a call of op.
Called(op, args, pre, trace, ended) ==
    /\ call' = IF call = Off THEN Off
               ELSE [op |-> op, args |-> args, pre |-> pre, trace |-> trace, ended |-> ended]
    /\ run' = IF run = Off THEN Off
              ELSE IF run.op = op /\ run.n < MaxRun THEN [run EXCEPT !.n = run.n + 1]
              ELSE [op |-> op, n |-> 1, start |-> pre]
    /\ budget' = IF budget > 0 THEN budget - 1 ELSE budget

\* Colours the caller draws with and files hold; among their bytes are those the
\* decoders give a meaning to: '#', '\r', '\n', ' ' and '\t'.
Palette ==
    {Pixel(0, 0, 0), Pixel(1, 0, 1), Pixel(HASH, CR, Uint8 - 1), Pixel(NL, SP, TAB)}

\* Colours the caller draws with.
Inks == {Pixel(0, 0, 0), Pixel(HASH, CR, Uint8 - 1)}

\* Magic numbers the caller may set.
Magics == {P1, P2, P3, P4, P6}

DoReadPBM ==
    /\ CanCall /\ file # NoFile /\ ppm = Nil
    /\ \E r \in {ReadPBM(file)} :
           /\ pbm' = r.img
           /\ outcome' = r.st
           /\ Called("ReadPBM", <<>>, pbm, <<>>, TRUE)
    /\ UNCHANGED <<ppm, file>>

DoReadPPM ==
    /\ CanCall /\ file # NoFile /\ pbm = Nil
    /\ \E r \in {ReadPPM(file)} :
           /\ ppm' = r.img
           /\ outcome' = r.st
           /\ Called("ReadPPM", <<>>, ppm, <<>>, TRUE)
    /\ UNCHANGED <<pbm, file>>

DoPBMSave ==
    /\ CanCall /\ pbm # Nil
    /\ file' = PBMSave(pbm)
    /\ outcome' = "ok"
    /\ Called("PBM.Save", <<>>, pbm, <<>>, TRUE)
    /\ UNCHANGED <<pbm, ppm>>

DoPPMSave ==
    /\ CanCall /\ ppm # Nil
    /\ file' = PPMSave(ppm)
    /\ outcome' = "ok"
    /\ Called("PPM.Save", <<>>, ppm, <<>>, TRUE)
    /\ UNCHANGED <<pbm, ppm>>

\* A method of the PBM that cannot fail.
PBMCall(op, args, new) ==
    /\ pbm' = new
    /\ outcome' = "ok"
    /\ Called(op, args, pbm, <<>>, TRUE)
    /\ UNCHANGED <<ppm, file>>

\* A method of the PPM that cannot fail.
PPMCall(op, args, new, trace, ended) ==
    /\ ppm' = new
    /\ outcome' = "ok"
    /\ Called(op, args, ppm, trace, ended)
    /\ UNCHANGED <<pbm, file>>

DoPBMSet ==
    /\ CanCall /\ pbm # Nil
    /\ \E x \in (0 - 1)..pbm.width, y \in (0 - 1)..pbm.height, value \in BOOLEAN :
          /\ IF PBMSetInRange(pbm, x, y)
             THEN pbm' = PBMSet(pbm, x, y, value) /\ outcome' = "ok"
             ELSE pbm' = pbm /\ outcome' = "panic"
          /\ Called("PBM.Set", <<x, y, value>>, pbm, <<>>, TRUE)
    /\ UNCHANGED <<ppm, file>>

DoPBMInvert == CanCall /\ pbm # Nil /\ PBMCall("Invert", <<>>, PBMInvert(pbm))

DoPBMFlip == CanCall /\ pbm # Nil /\ PBMCall("Flip", <<>>, PBMFlip(pbm))

DoPBMFlop == CanCall /\ pbm # Nil /\ PBMCall("Flop", <<>>, PBMFlop(pbm))

DoPBMSetMagicNumber ==
    /\ CanCall /\ pbm # Nil
    /\ \E m \in Magics : PBMCall("SetMagicNumber", <<m>>, PBMSetMagicNumber(pbm, m))

DoPPMSet ==
    /\ CanCall /\ ppm # Nil
    /\ \E x \in (0 - 1)..ppm.width, y \in (0 - 1)..ppm.height, value \in Palette :
          PPMCall("PPM.Set", <<x, y, value>>, PPMSet(ppm, x, y, value), <<>>, TRUE)

DoPPMInvert == CanCall /\ ppm # Nil /\ PPMCall("Invert", <<>>, PPMInvert(ppm), <<>>, TRUE)

DoPPMFlip == CanCall /\ ppm # Nil /\ PPMCall("Flip", <<>>, PPMFlip(ppm), <<>>, TRUE)

DoPPMFlop == CanCall /\ ppm # Nil /\ PPMCall("Flop", <<>>, PPMFlop(ppm), <<>>, TRUE)

DoPPMSetMagicNumber ==
    /\ CanCall /\ ppm # Nil
    /\ \E m \in Magics :
          PPMCall("SetMagicNumber", <<m>>, PPMSetMagicNumber(ppm, m), <<>>, TRUE)

DoSetMaxValue ==
    /\ CanCall /\ ppm # Nil
    /\ \E maxValue \in {0, 1, 2, Uint8 - 1} :
          /\ IF SetMaxValuePanics(ppm)
             THEN ppm' = ppm /\ outcome' = "panic"
             ELSE ppm' = SetMaxValue(ppm, maxValue) /\ outcome' = "ok"
          /\ Called("SetMaxValue", <<maxValue>>, ppm, <<>>, TRUE)
    /\ UNCHANGED <<pbm, file>>

DoRotate90CW == CanCall /\ ppm # Nil /\ PPMCall("Rotate90CW", <<>>, Rotate90CW(ppm), <<>>, TRUE)

\* The points the caller draws between: the grid and a margin of one around it.
Points(p) == {Point(x, y) : x \in (0 - 1)..p.width, y \in (0 - 1)..p.height}

DoDrawLine ==
    /\ CanCall /\ ppm # Nil
    /\ \E p1 \in Points(ppm), p2 \in Points(ppm), color \in Inks :
          LET w == LineWalk(p1, p2)
          IN  PPMCall("DrawLine", <<p1, p2, color>>, DrawLine(ppm, p1, p2, color),
                      w.pts, w.ended)

DoDrawRectangle ==
    /\ CanCall /\ ppm # Nil
    /\ \E p1 \in Points(ppm), width \in 0..ppm.width, height \in 0..ppm.height,
          color \in Inks :
          PPMCall("DrawRectangle", <<p1, width, height, color>>,
                  DrawRectangle(ppm, p1, width, height, color),
                  RectangleLines(p1, width, height), TRUE)

DoDrawFilledRectangle ==
    /\ CanCall /\ ppm # Nil
    /\ \E p1 \in Points(ppm), width \in 0..ppm.width, height \in 0..ppm.height,
          color \in Inks :
          PPMCall("DrawFilledRectangle", <<p1, width, height, color>>,
                  DrawFilledRectangle(ppm, p1, width, height, color),
                  FilledRectangleLines(p1, width, height), TRUE)

DoDrawCircle ==
    /\ CanCall /\ ppm # Nil
    /\ \E center \in Points(ppm), radius \in 0..ppm.width, color \in Inks :
          PPMCall("DrawCircle", <<center, radius, color>>,
                  DrawCircle(ppm, center, radius, color), <<>>, TRUE)

DoDrawFilledCircle ==
    /\ CanCall /\ ppm # Nil
    /\ \E center \in Points(ppm), radius \in 0..ppm.width, color \in Inks :
          PPMCall("DrawFilledCircle", <<center, radius, color>>,
                  DrawFilledCircle(ppm, center, radius, color), <<>>, TRUE)

\* The third corner of the triangles the caller draws.
Corners(p) == {Point(0, 0), Point(p.width - 1, p.height), Point(0 - 1, p.height - 1)}

DoDrawTriangle ==
    /\ CanCall /\ ppm # Nil
    /\ \E p1 \in Points(ppm), p2 \in Points(ppm), p3 \in Corners(ppm), color \in Inks :
          PPMCall("DrawTriangle", <<p1, p2, p3, color>>,
                  DrawTriangle(ppm, p1, p2, p3, color), TriangleLines(p1, p2, p3), TRUE)

DoDrawFilledTriangle ==
    /\ CanCall /\ ppm # Nil
    /\ \E p1 \in Points(ppm), p2 \in Points(ppm), p3 \in Corners(ppm), color \in Inks :
          LET t == FilledTriangleLines(p1, p2, p3, LoopFuel)
          IN  PPMCall("DrawFilledTriangle", <<p1, p2, p3, color>>,
                      DrawFilledTriangle(ppm, p1, p2, p3, color), t.lines, t.ended)

(***************************************************************************)
(* The images and files the runs start from.                               *)
(***************************************************************************)
\* The sizes with at most n pixels, empty ones included.
Dims(n) == {d \in (0..n) \X (0..n) : d[1] * d[2] <= n}

Grids(width, height, values) == [1..height -> [1..width -> values]]

PBMImages(n, magics) ==
    UNION {{PBM(g, d[1], d[2], m) : g \in Grids(d[1], d[2], BOOLEAN), m \in magics} :
           d \in Dims(n)}

PPMImages(n, magics, maxes, colors) ==
    UNION {{PPM(g, d[1], d[2], m, mx) : g \in Grids(d[1], d[2], colors), m \in magics} :
           d \in Dims(n), mx \in maxes}

\* The colours of the palette with every channel <= max.
ColorsUpTo(max) == {c \in Palette : c.R <= max /\ c.G <= max /\ c.B <= max}

\* The colour images of at most n pixels that a well-formed file decodes to.
ValidPPMImages(n) ==
    UNION {PPMImages(n, {P3, P6}, {mx}, ColorsUpTo(mx)) : mx \in {1, Uint8 - 1}}

\* Lines of the files of the decoding run: magic numbers, known and unknown,
\* "2 1", "x 1", "255", "1 0", "1 2", "1", "0 0 0 9 9 9".
FileLines ==
    {P1, P4, P3, P6, <<CHP, CH0 + 9>>,
     <<CH0 + 2, SP, CH1>>, <<120, SP, CH1>>, <<CH0 + 2, CH0 + 5, CH0 + 5>>,
     <<CH1, SP, CH0>>, <<CH1, SP, CH0 + 2>>, <<CH1>>,
     <<CH0, SP, CH0, SP, CH0, SP, CH0 + 9, SP, CH0 + 9, SP, CH0 + 9>>}

\* What follows the last full line: nothing, a P4 row of two pixels, the P6
\* payload of two pixels, a P3 row without its line end.
FileTails ==
    {<<>>, <<128>>, <<1, 2, 3, 4, 5, 6>>,
     <<CH0, SP, CH0, SP, CH0, SP, CH0 + 9, SP, CH0 + 9, SP, CH0 + 9>>}

Files ==
    UNION {{Concat([i \in 1..k |-> ls[i] \o <<NL>>]) \o t : ls \in [1..k -> FileLines],
            t \in FileTails} : k \in 0..MaxFileLines}

\* The canvases of the drawing run: MaxCanvas wide, every pixel its own colour.
Canvases ==
    {PPM([y \in 1..h |-> [x \in 1..MaxCanvas |-> Pixel(x, y, 7)]], MaxCanvas, h,
         IF h % 2 = 0 THEN P3 ELSE P6, Uint8 - 1) : h \in 1..MaxCanvas}

InitWith(b, p, f, c, r, n) ==
    /\ pbm = b /\ ppm = p /\ file = f
    /\ outcome = "none" /\ call = c /\ run = r /\ budget = n

(***************************************************************************)
(* Spec: the life of an image.  It starts as a well-formed file decodes    *)
(* it, and the caller makes up to MaxOps calls of any method.              *)
(***************************************************************************)
Init ==
    \/ \E b \in PBMImages(MaxObjPixels, {P1, P4}) : InitWith(b, Nil, NoFile, Off, Off, MaxOps)
    \/ \E p \in ValidPPMImages(MaxObjPixels) : InitWith(Nil, p, NoFile, Off, Off, MaxOps)

Next ==
    \/ DoReadPBM \/ DoReadPPM \/ DoPBMSave \/ DoPPMSave
    \/ DoPBMSet \/ DoPBMInvert \/ DoPBMFlip \/ DoPBMFlop \/ DoPBMSetMagicNumber
    \/ DoPPMSet \/ DoPPMInvert \/ DoPPMFlip \/ DoPPMFlop \/ DoPPMSetMagicNumber
    \/ DoSetMaxValue \/ DoRotate90CW
    \/ DoDrawLine \/ DoDrawRectangle \/ DoDrawFilledRectangle
    \/ DoDrawCircle \/ DoDrawFilledCircle \/ DoDrawTriangle \/ DoDrawFilledTriangle

Spec == Init /\ [][Next]_vars

(***************************************************************************)
(* SpecCodec: an image is saved and read back (two calls).                 *)
(***************************************************************************)
InitCodec ==
    \/ \E b \in PBMImages(MaxCodecPixels, {P1, P4}) : InitWith(b, Nil, NoFile, NoCall, Off, 2)
    \/ \E p \in ValidPPMImages(MaxCodecPixels) : InitWith(Nil, p, NoFile, NoCall, Off, 2)

NextCodec == DoPBMSave \/ DoPPMSave \/ DoReadPBM \/ DoReadPPM

SpecCodec == InitCodec /\ [][NextCodec]_vars

(***************************************************************************)
(* SpecDecode: a file of any content is read.                              *)
(***************************************************************************)
InitDecode == \E f \in Files : InitWith(Nil, Nil, f, NoCall, Off, NoLimit)

NextDecode == DoReadPBM \/ DoReadPPM

SpecDecode == InitDecode /\ [][NextDecode]_vars

(***************************************************************************)
(* SpecP4: a binary two-value image is saved.                              *)
(***************************************************************************)
InitP4 == \E b \in PBMImages(MaxP4Pixels, {P4}) : InitWith(b, Nil, NoFile, NoCall, Off, NoLimit)

NextP4 == DoPBMSave

SpecP4 == InitP4 /\ [][NextP4]_vars

(***************************************************************************)
(* SpecTransform: an image with any pixel values, in range of max or not,  *)
(* is inverted and rotated any number of times.                            *)
(***************************************************************************)
InitTransform ==
    \/ \E b \in PBMImages(MaxPixels, {P1, P4}) : InitWith(b, Nil, NoFile, Off, NoRun, NoLimit)
    \/ \E p \in PPMImages(MaxPixels, {P3, P6}, {0, 1, 100, Uint8 - 1},
                          {Pixel(0, 0, 0), Pixel(HASH, NL, Uint8 - 1)}) :
          InitWith(Nil, p, NoFile, Off, NoRun, NoLimit)

NextTransform == DoPBMInvert \/ DoPPMInvert \/ DoRotate90CW

SpecTransform == InitTransform /\ [][NextTransform]_vars

(***************************************************************************)
(* SpecSet: one call of Set on an image, at any coordinates in the grid or *)
(* just outside it.                                                        *)
(***************************************************************************)
InitSet ==
    \/ \E b \in PBMImages(MaxPixels, {P1, P4}) : InitWith(b, Nil, NoFile, NoCall, Off, 1)
    \/ \E p \in ValidPPMImages(MaxObjPixels) : InitWith(Nil, p, NoFile, NoCall, Off, 1)

NextSet == DoPBMSet \/ DoPPMSet

SpecSet == InitSet /\ [][NextSet]_vars

(***************************************************************************)
(* SpecDraw: one call of DrawLine or DrawFilledTriangle on a canvas.       *)
(***************************************************************************)
InitDraw == \E p \in Canvases : InitWith(Nil, p, NoFile, NoCall, Off, 1)

NextDraw == DoDrawLine \/ DoDrawFilledTriangle

SpecDraw == InitDraw /\ [][NextDraw]_vars

(***************************************************************************)
(* The claims.                                                             *)
(***************************************************************************)
\* The input left after the first k blank-separated tokens of s.
RECURSIVE AfterTokens(_, _)
AfterTokens(s, k) ==
    IF k = 0 THEN s
    ELSE LET t == SubSeq(s, SpanLen(s, TRUE) + 1, Len(s))
         IN  AfterTokens(SubSeq(t, SpanLen(t, FALSE) + 1, Len(t)), k - 1)

\* A token that is a decimal integer, with or without a sign.
IsInteger(tok) == ScanInt(tok, TRUE).ok /\ ScanInt(tok, TRUE).rest = <<>>

\* ceil(a / b)
CeilDiv(a, b) == CHOOSE n \in 0..a : n * b >= a /\ (n = 0 \/ (n - 1) * b < a)

\* A file the format rejects, for a reader of the magic numbers ascii and binary
\* with the given number of header tokens and of channels per pixel: its magic
\* number is not recognised, or a header field is no integer, or its payload is
\* shorter than the header requires.
Malformed(f, ascii, binary, header, channels) ==
    LET toks == Fields(f)
        w == ScanInt(toks[2], TRUE).val
        h == ScanInt(toks[3], TRUE).val
        body == AfterTokens(f, header)
        bytes == IF ascii = P1 THEN h * CeilDiv(w, 8) ELSE w * h * channels
    IN  \/ toks = <<>>
        \/ toks[1] \notin {ascii, binary}
        \/ Len(toks) < header
        \/ \E i \in 2..header : ~IsInteger(toks[i])
        \/ w >= 0 /\ h >= 0 /\ toks[1] = ascii /\ Len(toks) - header < w * h * channels
        \/ w >= 0 /\ h >= 0 /\ toks[1] = binary /\ Len(body) - 1 < bytes

\* C1: reading back the bytes Save wrote gives the image that was saved: the same
\* magic number, width, height, max and grid, for a two-value image (P1, P4) and
\* for a colour image (P3, P6).
C1_RoundTrip ==
    /\ (call.op = "ReadPBM" /\ file = PBMSave(call.pre)) => (outcome = "ok" /\ pbm = call.pre)
    /\ (call.op = "ReadPPM" /\ file = PPMSave(call.pre)) => (outcome = "ok" /\ ppm = call.pre)

\* C2: decoding a file whose magic number is not recognised, whose width, height
\* or max is no integer, or whose payload is too short ends with an error and
\* without an image, never with an image and never with a panic.
C2_DecodeRejects ==
    /\ (call.op = "ReadPBM" /\ Malformed(file, P1, P4, 3, 1))
          => (outcome = "error" /\ pbm = Nil)
    /\ (call.op = "ReadPPM" /\ Malformed(file, P3, P6, 4, 3))
          => (outcome = "error" /\ ppm = Nil)

\* The payload tokens of a P1 file f with a header of two integers, and whether
\* they are what the header announces: width*height tokens, each "0" or "1".
P1Header(f) ==
    LET toks == Fields(f)
    IN  Len(toks) >= 3 /\ toks[1] = P1 /\ IsInteger(toks[2]) /\ IsInteger(toks[3])
        /\ ScanInt(toks[2], TRUE).val >= 0 /\ ScanInt(toks[3], TRUE).val >= 0

P1PayloadGood(f) ==
    LET toks == Fields(f)
    IN  /\ Len(toks) - 3 = ScanInt(toks[2], TRUE).val * ScanInt(toks[3], TRUE).val
        /\ \A i \in 4..Len(toks) : toks[i] \in {<<CH0>>, <<CH1>>}

\* C3: decoding a P1 file with a payload token other than "0" and "1", or with a
\* payload that is not exactly width*height tokens, ends with an error and without
\* an image.
C3_P1TokensChecked ==
    (call.op = "ReadPBM" /\ P1Header(file) /\ ~P1PayloadGood(file))
        => (outcome = "error" /\ pbm = Nil)

\* The coordinates of the last call of Set lie outside the grid it was called on.
SetOutOfRange ==
    ~(/\ call.args[1] >= 0 /\ call.args[1] < call.pre.width
      /\ call.args[2] >= 0 /\ call.args[2] < call.pre.height)

\* C4: Set at coordinates outside the grid is a no-op on the two-value and on the
\* colour image: no panic, and the image is as it was before the call.
C4_SetOutOfRangeNoOp ==
    /\ (call.op = "PBM.Set" /\ SetOutOfRange) => (outcome = "ok" /\ pbm = call.pre)
    /\ (call.op = "PPM.Set" /\ SetOutOfRange) => (outcome = "ok" /\ ppm = call.pre)

\* C5: the colour image always has height rows of width pixels, every channel of
\* every pixel <= max, and max is not zero.
C5_ImageInvariant ==
    ppm # Nil =>
        /\ Len(ppm.data) = ppm.height
        /\ \A y \in 1..Len(ppm.data) :
              /\ Len(ppm.data[y]) = ppm.width
              /\ \A x \in 1..Len(ppm.data[y]) :
                    /\ ppm.data[y][x].R <= ppm.max
                    /\ ppm.data[y][x].G <= ppm.max
                    /\ ppm.data[y][x].B <= ppm.max
        /\ ppm.max # 0

\* The pixels of image p are those of image q, but for the points of pts inside
\* the grid, which have the given colour; the rest of p is that of q.
DrawnOver(p, q, pts, color) ==
    /\ p.width = q.width /\ p.height = q.height
    /\ p.max = q.max /\ p.magicNumber = q.magicNumber
    /\ Len(p.data) = p.height
    /\ \A y \in 1..p.height :
          /\ Len(p.data[y]) = p.width
          /\ \A x \in 1..p.width :
                p.data[y][x] = IF \E i \in 1..Len(pts) : pts[i] = Point(x - 1, y - 1)
                               THEN color ELSE q.data[y][x]

\* C6: DrawLine(A, B, color) ends for any two points; it visits A first and B
\* last, each point one unit step (on one axis or on both) nearer to B than the
\* one before; the visited points inside the grid get the colour and no other
\* pixel changes; A = B visits one point, and (0,0)-(3,3) visits the diagonal.
C6_DrawLine ==
    call.op = "DrawLine" =>
        LET a == call.args[1]
            b == call.args[2]
            pts == call.trace
            dist(p) == Max(abs(b.X - p.X), abs(b.Y - p.Y))
        IN  /\ call.ended /\ outcome = "ok"
            /\ pts[1] = a /\ pts[Len(pts)] = b
            /\ Len(pts) = dist(a) + 1
            /\ \A i \in 1..(Len(pts) - 1) :
                  /\ abs(pts[i + 1].X - pts[i].X) <= 1
                  /\ abs(pts[i + 1].Y - pts[i].Y) <= 1
                  /\ dist(pts[i + 1]) = dist(pts[i]) - 1
            /\ DrawnOver(ppm, call.pre, pts, call.args[3])
            /\ (a = b => pts = <<a>>)
            /\ (a = Point(0, 0) /\ b = Point(3, 3)
                   => pts = <<Point(0, 0), Point(1, 1), Point(2, 2), Point(3, 3)>>)

C6_Witness ==
    /\ call.op = "DrawLine" /\ call.ended
    /\ call.args[1] = Point(0, 0) /\ call.args[2] = Point(3, 3)
    /\ ppm.width >= 4 /\ ppm.height >= 4
    /\ \A y \in 1..ppm.height, x \in 1..ppm.width :
          (ppm.data[y][x] = call.args[3]) <=> (x = y)

\* The payload of a saved PBM file: what follows the two lines of its header.
PBMPayload(f) == ReadString(ReadString(f).rest).rest

\* C7: Save of a P4 image writes ceil(width/8) bytes per row; pixel x of a row is
\* bit 7 - x%8 of byte x/8 of the row (1 = set) and the bits past the last pixel
\* are 0; a set row of width 10 is written as 0xFF, 0xC0.
C7_P4Packing ==
    (call.op = "PBM.Save" /\ pbm.magicNumber = P4) =>
        LET payload == PBMPayload(file)
            rowBytes == CeilDiv(pbm.width, 8)
        IN  /\ Len(payload) = pbm.height * rowBytes
            /\ \A y \in 1..pbm.height, i \in 0..(rowBytes - 1), k \in 0..7 :
                  LET byte == payload[(y - 1) * rowBytes + i + 1]
                      x == 8 * i + (7 - k)
                  IN  /\ byte \in 0..(Uint8 - 1)
                      /\ Bit(byte, k) = IF x < pbm.width /\ pbm.data[y][x + 1] THEN 1 ELSE 0
            /\ \A y \in 1..pbm.height :
                  (pbm.width = 10 /\ \A x \in 1..10 : pbm.data[y][x])
                      => SubSeq(payload, 2 * y - 1, 2 * y) = <<255, 192>>

C7_Witness ==
    /\ call.op = "PBM.Save" /\ pbm.magicNumber = P4
    /\ pbm.width = 10 /\ pbm.height = 1 /\ \A x \in 1..10 : pbm.data[1][x]
    /\ PBMPayload(file) = <<255, 192>>

\* The image the caller holds.
Image == IF pbm # Nil THEN pbm ELSE ppm

\* C8: after two calls of Invert in a row (and after four) the image is the one
\* before the first of them: grid, width, height, max and magic number.
C8_InvertInvolution ==
    (run.op = "Invert" /\ run.n % 2 = 0) => Image = run.start

C8_Witness ==
    /\ run.op = "Invert" /\ run.n = 2 /\ ppm # Nil /\ ppm = run.start
    /\ ppm.width > 0 /\ ppm.height > 0
    /\ ppm.max = 100 /\ ppm.data[1][1].B > ppm.max

\* C9: Rotate90CW puts the pixel at row y, column x of the old grid at row x,
\* column height-1-y of the new one and swaps width and height; after four calls
\* in a row the image is the one before the first.
C9_Rotate ==
    /\ (run.op = "Rotate90CW" /\ run.n = 1) =>
          /\ ppm.width = run.start.height /\ ppm.height = run.start.width
          /\ ppm.max = run.start.max /\ ppm.magicNumber = run.start.magicNumber
          /\ Len(ppm.data) = ppm.height
          /\ \A r \in 1..ppm.height : Len(ppm.data[r]) = ppm.width
          /\ \A y \in 0..(run.start.height - 1), x \in 0..(run.start.width - 1) :
                ppm.data[x + 1][(run.start.height - 1 - y) + 1] = run.start.data[y + 1][x + 1]
    /\ (run.op = "Rotate90CW" /\ run.n = 4) => ppm = run.start

C9_Witness ==
    /\ run.op = "Rotate90CW" /\ run.n = 4 /\ ppm = run.start
    /\ ppm.width = 3 /\ ppm.height = 2
    /\ ppm.data[1][1] # ppm.data[1][2] /\ ppm.data[1][1] # ppm.data[2][1]

\* C10: DrawFilledTriangle(p1, p2, p3, color) ends for any three points; it draws
\* max(|p2.X-p1.X|, |p2.Y-p1.Y|) + 1 lines, all from p3: the first to p1, each
\* next one to the point one unit nearer to p2 on every axis on which the last
\* differs from p2, the last to p2.
C10_FilledTriangle ==
    call.op = "DrawFilledTriangle" =>
        LET p1 == call.args[1]
            p2 == call.args[2]
            p3 == call.args[3]
            lines == call.trace
        IN  /\ call.ended /\ outcome = "ok"
            /\ Len(lines) = Max(abs(p2.X - p1.X), abs(p2.Y - p1.Y)) + 1
            /\ \A i \in 1..Len(lines) : lines[i][1] = p3
            /\ lines[1][2] = p1
            /\ lines[Len(lines)][2] = p2
            /\ \A i \in 1..(Len(lines) - 1) :
                  /\ lines[i + 1][2].X = lines[i][2].X + sign(p2.X - lines[i][2].X)
                  /\ lines[i + 1][2].Y = lines[i][2].Y + sign(p2.Y - lines[i][2].Y)
            /\ ppm = DrawLines(call.pre, lines, call.args[4])

C10_Witness ==
    /\ call.op = "DrawFilledTriangle" /\ call.ended
    /\ call.args[1] = Point(0, 0) /\ call.args[2] = Point(3, 1)
    /\ Len(call.trace) = 4
    /\ call.trace[2][2] = Point(1, 1) /\ call.trace[3][2] = Point(2, 1)
    /\ ppm # call.pre

====
